---- MODULE Spec2Model ----
\* Model of the Recommendation controller
\* (pkg/controller/recommendation/recommendation_controller.go):
\* the scheduling decision NeedRecommend, the condition upsert setCondition,
\* the status reconciler UpdateStatus and the Reconcile handler, run against
\* one Recommendation object held in the API store.
EXTENDS Integers, Sequences, FiniteSets, TLC

\* ---------------------------------------------------------------- constants
RsyncPeriod == 60
ErrorFallbackPeriod == 5
DefaultTimeoutSeconds == 600

\* ------------------------------------------------------------------- bounds
\* The clock is sampled in two windows of MaxDrift + 1 seconds.
MaxDrift == 1
\* Largest explicit Spec.TimeoutSeconds / PeriodSeconds of the entity.
MaxSeconds == 1

\* A nil pointer is the empty sequence, a set pointer a one-element sequence.
None == << >>
Some(v) == <<v>>

\* Instants at which the clock is read: a window starting at 0 and a window
\* starting one default timeout later.
Instants == {base + d : base \in {0, DefaultTimeoutSeconds}, d \in 0..MaxDrift}
InWindow(t) == t \in Instants

\* The entity is created at the first or at the last instant of the first window.
CreationTimestamps == {0, MaxDrift}

\* ------------------------------------------------------- external outcomes
NoErr == "nil"
NotFoundErr == "NotFound"
\* a cancelled context makes the client call return the context's error
CanceledErr == "Canceled"
GetErrs == {NoErr, "GetFailed", CanceledErr}
NewRecommenderErrs == {NoErr, "ErrCreate"}
OfferErrs == {NoErr, "ErrOffer"}
\* any failed write: a conflict, a cancelled context, another error
UpdateErrs == {NoErr, "Conflict"}
\* proposed *ProposedRecommendation: nil, or the two opaque payloads
Proposals ==
    {None,
     Some([ResourceRequest |-> "r1", EffectiveHPA |-> "h1"]),
     Some([ResourceRequest |-> "r2", EffectiveHPA |-> "nil"])}

\* ------------------------------------------------------------ data model
ReadyMessage == <<"Recommendation is ready">>
CreateFailMessage(err) == <<"Failed to create recommender", err>>
OfferFailMessage(err) == <<"Failed to offer recommend", err>>

Condition(type, status, reason, message, now) ==
    [Type |-> type, Status |-> status, Reason |-> reason,
     Message |-> message, LastTransitionTime |-> now]

OtherCondition == Condition("Other", "Unknown", "OtherReason", <<"other">>, 0)

EmptyStatus ==
    [Conditions |-> << >>,
     LastSuccessfulTime |-> None,
     LastUpdateTime |-> 0,
     ResourceRequest |-> "nil",
     EffectiveHPA |-> "nil"]

\* Condition sequences an entity can carry when the controller first sees it.
InitConditions ==
    {<< >>,
     <<OtherCondition>>,
     <<Condition("Ready", "False", "FailedOfferRecommend", OfferFailMessage("ErrOffer"), 0),
       OtherCondition>>}

Strategies ==
    {[CompletionStrategyType |-> "Once", PeriodSeconds |-> None]}
    \cup {[CompletionStrategyType |-> "Periodical", PeriodSeconds |-> p] :
            p \in {None} \cup {Some(s) : s \in 1..MaxSeconds}}

TimeoutChoices == {None} \cup {Some(s) : s \in 1..MaxSeconds}

\* ----------------------------------------------------------------- state
VARIABLES
    clock,           \* wall clock (time.Now / metav1.Now), seconds
    recommendation,  \* the Recommendation object held by the API store
    last             \* observation of the latest Reconcile invocation

vars == <<clock, recommendation, last>>

\* ------------------------------------------------------ NeedRecommend
Decision(run, resync) ==
    [needRecommend |-> run, needResync |-> resync, panicked |-> FALSE]
\* dereference of a nil Spec.CompletionStrategy.PeriodSeconds
PanicDecision ==
    [needRecommend |-> FALSE, needResync |-> FALSE, panicked |-> TRUE]

\* Variants of NeedRecommend with one comparison or test changed.
NeedRecommend_PeriodicalAtDeadline(rec, now) ==
    LET timeoutSeconds ==
            IF rec.Spec.TimeoutSeconds # None
                THEN rec.Spec.TimeoutSeconds[1]
                ELSE DefaultTimeoutSeconds
        strategy == rec.Spec.CompletionStrategy
        lastSuccessful == rec.Status.LastSuccessfulTime
    IN  IF /\ strategy.CompletionStrategyType = "Once"
           /\ lastSuccessful # None
        THEN Decision(FALSE, FALSE)
        ELSE IF /\ strategy.CompletionStrategyType = "Once"
                /\ now > rec.CreationTimestamp + timeoutSeconds
        THEN Decision(FALSE, FALSE)
        ELSE IF strategy.CompletionStrategyType = "Periodical"
        THEN IF lastSuccessful = None
             THEN Decision(TRUE, FALSE)
             ELSE IF strategy.PeriodSeconds = None
             THEN PanicDecision
             ELSE IF now >= lastSuccessful[1] + strategy.PeriodSeconds[1] + timeoutSeconds
             THEN Decision(FALSE, TRUE)
             ELSE Decision(TRUE, FALSE)
        ELSE Decision(TRUE, FALSE)

NeedRecommend_OnceIgnoresSuccess(rec, now) ==
    LET timeoutSeconds ==
            IF rec.Spec.TimeoutSeconds # None
                THEN rec.Spec.TimeoutSeconds[1]
                ELSE DefaultTimeoutSeconds
        strategy == rec.Spec.CompletionStrategy
        lastSuccessful == rec.Status.LastSuccessfulTime
    IN  IF /\ strategy.CompletionStrategyType = "Once"
           /\ lastSuccessful # None
           /\ FALSE
        THEN Decision(FALSE, FALSE)
        ELSE IF /\ strategy.CompletionStrategyType = "Once"
                /\ now > rec.CreationTimestamp + timeoutSeconds
        THEN Decision(FALSE, FALSE)
        ELSE IF strategy.CompletionStrategyType = "Periodical"
        THEN IF lastSuccessful = None
             THEN Decision(TRUE, FALSE)
             ELSE IF strategy.PeriodSeconds = None
             THEN PanicDecision
             ELSE IF now > lastSuccessful[1] + strategy.PeriodSeconds[1] + timeoutSeconds
             THEN Decision(FALSE, TRUE)
             ELSE Decision(TRUE, FALSE)
        ELSE Decision(TRUE, FALSE)

NeedRecommend_OnceAtDeadline(rec, now) ==
    LET timeoutSeconds ==
            IF rec.Spec.TimeoutSeconds # None
                THEN rec.Spec.TimeoutSeconds[1]
                ELSE DefaultTimeoutSeconds
        strategy == rec.Spec.CompletionStrategy
        lastSuccessful == rec.Status.LastSuccessfulTime
    IN  IF /\ strategy.CompletionStrategyType = "Once"
           /\ lastSuccessful # None
        THEN Decision(FALSE, FALSE)
        ELSE IF /\ strategy.CompletionStrategyType = "Once"
                /\ now >= rec.CreationTimestamp + timeoutSeconds
        THEN Decision(FALSE, FALSE)
        ELSE IF strategy.CompletionStrategyType = "Periodical"
        THEN IF lastSuccessful = None
             THEN Decision(TRUE, FALSE)
             ELSE IF strategy.PeriodSeconds = None
             THEN PanicDecision
             ELSE IF now > lastSuccessful[1] + strategy.PeriodSeconds[1] + timeoutSeconds
             THEN Decision(FALSE, TRUE)
             ELSE Decision(TRUE, FALSE)
        ELSE Decision(TRUE, FALSE)

\* NeedRecommend as written (lines 113-148).
NeedRecommend(rec, now) ==
    LET timeoutSeconds ==
            IF rec.Spec.TimeoutSeconds # None
                THEN rec.Spec.TimeoutSeconds[1]
                ELSE DefaultTimeoutSeconds
        strategy == rec.Spec.CompletionStrategy
        lastSuccessful == rec.Status.LastSuccessfulTime
    IN  IF /\ strategy.CompletionStrategyType = "Once"
           /\ lastSuccessful # None
        THEN Decision(FALSE, FALSE)
        ELSE IF /\ strategy.CompletionStrategyType = "Once"
                /\ now > rec.CreationTimestamp + timeoutSeconds
        THEN Decision(FALSE, FALSE)
        ELSE IF strategy.CompletionStrategyType = "Periodical"
        THEN IF lastSuccessful = None
             THEN Decision(TRUE, FALSE)
             ELSE IF strategy.PeriodSeconds = None
             THEN PanicDecision
             ELSE IF now > lastSuccessful[1] + strategy.PeriodSeconds[1] + timeoutSeconds
             THEN Decision(FALSE, TRUE)
             ELSE Decision(TRUE, FALSE)
        ELSE Decision(TRUE, FALSE)

\* ------------------------------------------------------ setCondition
\* index of the first condition of the given type, 0 when there is none
FirstIndex(conditions, conditionType) ==
    IF \E i \in 1..Len(conditions) : conditions[i].Type = conditionType
        THEN CHOOSE i \in 1..Len(conditions) :
                /\ conditions[i].Type = conditionType
                /\ \A j \in 1..(i - 1) : conditions[j].Type # conditionType
        ELSE 0

\* Variant of setCondition without the search for an existing entry.
setCondition_AlwaysAppend(status, conditionType, conditionStatus, reason, message, now) ==
    [status EXCEPT !.Conditions =
        Append(@, Condition(conditionType, conditionStatus, reason, message, now))]

setCondition(status, conditionType, conditionStatus, reason, message, now) ==
    LET i == FirstIndex(status.Conditions, conditionType)
    IN  IF i # 0
        THEN [status EXCEPT !.Conditions[i] =
                [@ EXCEPT !.Status = conditionStatus,
                          !.Reason = reason,
                          !.Message = message,
                          !.LastTransitionTime = now]]
        ELSE [status EXCEPT !.Conditions =
                Append(@, Condition(conditionType, conditionStatus, reason, message, now))]

\* ------------------------------------------------------ UpdateStatus
\* ready flag computed by the loop over newStatus.Conditions
HasReadyCondition(conditions) ==
    \E i \in 1..Len(conditions) :
        /\ conditions[i].Reason = "RecommendationReady"
        /\ conditions[i].Status = "True"

\* Variant of UpdateStatus that never derives LastSuccessfulTime.
UpdateStatus_NoSuccessTime(rec, newStatus, now, updateErr) ==
    IF rec.Status # newStatus
    THEN [changed |-> TRUE, status |-> [newStatus EXCEPT !.LastUpdateTime = now],
          updateCalled |-> TRUE, persisted |-> (updateErr = NoErr)]
    ELSE [changed |-> FALSE, status |-> rec.Status,
          updateCalled |-> FALSE, persisted |-> FALSE]

\* Variant of UpdateStatus that stamps LastSuccessfulTime on every write.
UpdateStatus_AlwaysSuccessTime(rec, newStatus, now, updateErr) ==
    IF rec.Status # newStatus
    THEN [changed |-> TRUE,
          status |-> [newStatus EXCEPT !.LastUpdateTime = now,
                                       !.LastSuccessfulTime = Some(now)],
          updateCalled |-> TRUE, persisted |-> (updateErr = NoErr)]
    ELSE [changed |-> FALSE, status |-> rec.Status,
          updateCalled |-> FALSE, persisted |-> FALSE]

\* Variant of UpdateStatus without the DeepEqual gate.
UpdateStatus_AlwaysWrites(rec, newStatus, now, updateErr) ==
    LET stamped == [newStatus EXCEPT !.LastUpdateTime = now]
        status == IF HasReadyCondition(newStatus.Conditions)
                    THEN [stamped EXCEPT !.LastSuccessfulTime = Some(stamped.LastUpdateTime)]
                    ELSE stamped
    IN  [changed |-> TRUE, status |-> status,
         updateCalled |-> TRUE, persisted |-> (updateErr = NoErr)]

\* Variant of UpdateStatus that clears LastSuccessfulTime when not ready.
UpdateStatus_ClearsOnFailure(rec, newStatus, now, updateErr) ==
    IF rec.Status # newStatus
    THEN LET stamped == [newStatus EXCEPT !.LastUpdateTime = now]
             status == IF HasReadyCondition(newStatus.Conditions)
                         THEN [stamped EXCEPT !.LastSuccessfulTime = Some(stamped.LastUpdateTime)]
                         ELSE [stamped EXCEPT !.LastSuccessfulTime = None]
         IN  [changed |-> TRUE, status |-> status,
              updateCalled |-> TRUE, persisted |-> (updateErr = NoErr)]
    ELSE [changed |-> FALSE, status |-> rec.Status,
          updateCalled |-> FALSE, persisted |-> FALSE]

\* Variant of UpdateStatus that takes LastSuccessfulTime from the
\* LastUpdateTime of newStatus, which is still the fetched one.
UpdateStatus_StaleSuccessTime(rec, newStatus, now, updateErr) ==
    IF rec.Status # newStatus
    THEN LET stamped == [newStatus EXCEPT !.LastUpdateTime = now]
             status == IF HasReadyCondition(newStatus.Conditions)
                         THEN [stamped EXCEPT !.LastSuccessfulTime = Some(newStatus.LastUpdateTime)]
                         ELSE stamped
         IN  [changed |-> TRUE, status |-> status,
              updateCalled |-> TRUE, persisted |-> (updateErr = NoErr)]
    ELSE [changed |-> FALSE, status |-> rec.Status,
          updateCalled |-> FALSE, persisted |-> FALSE]

\* Returns what the call does: whether the statuses differed, the Status of
\* the in-memory object when the call returns, whether c.Update was called
\* and whether the store took the write.
UpdateStatus(rec, newStatus, now, updateErr) ==
    IF rec.Status # newStatus
    THEN LET stamped == [newStatus EXCEPT !.LastUpdateTime = now]
             status == IF HasReadyCondition(newStatus.Conditions)
                         THEN [stamped EXCEPT !.LastSuccessfulTime = Some(stamped.LastUpdateTime)]
                         ELSE stamped
         IN  [changed |-> TRUE, status |-> status,
              updateCalled |-> TRUE, persisted |-> (updateErr = NoErr)]
    ELSE [changed |-> FALSE, status |-> rec.Status,
          updateCalled |-> FALSE, persisted |-> FALSE]

\* ------------------------------------------------------ Reconcile
Result(requeueAfter, err) == [RequeueAfter |-> requeueAfter, err |-> err]

\* What the latest invocation did: the path it took, what it returned, the
\* calls it made and the instant at which it decided.
NoObservation ==
    [kind |-> "none", returned |-> FALSE, result |-> Result(0, NoErr),
     decision |-> Decision(FALSE, FALSE), decided |-> FALSE,
     changed |-> FALSE, persisted |-> FALSE,
     nNew |-> 0, nOffer |-> 0, nUpdate |-> 0, updateErr |-> NoErr,
     proposed |-> None, repeated |-> FALSE, later |-> FALSE, nowDecide |-> 0]

\* Every path below is one whole invocation of Reconcile, delivered at an
\* instant now that is not before the last instant the clock was read.

\* Variant of the fetch-failure path that swallows a not-found error.
ReconcileGetFailed_IgnoresNotFound ==
    \E now \in Instants, getErr \in GetErrs :
        /\ now >= clock
        /\ ~recommendation.exists \/ getErr # NoErr
        /\ last' = [NoObservation EXCEPT
                        !.kind = "getfailed", !.returned = TRUE,
                        !.result = Result(0, IF recommendation.exists THEN getErr ELSE NoErr),
                        !.later = (now > clock),
                        !.nowDecide = now]
        /\ clock' = now
        /\ UNCHANGED recommendation

\* c.Client.Get fails: not found, or any other error
ReconcileGetFailed ==
    \E now \in Instants, getErr \in GetErrs :
        /\ now >= clock
        /\ ~recommendation.exists \/ getErr # NoErr
        /\ last' = [NoObservation EXCEPT
                        !.kind = "getfailed", !.returned = TRUE,
                        !.result = Result(0, IF recommendation.exists THEN getErr ELSE NotFoundErr),
                        !.later = (now > clock),
                        !.nowDecide = now]
        /\ clock' = now
        /\ UNCHANGED recommendation

\* DeletionTimestamp != nil
ReconcileDeleted ==
    \E now \in Instants :
        /\ now >= clock
        /\ recommendation.exists
        /\ recommendation.DeletionTimestamp # None
        /\ last' = [NoObservation EXCEPT
                        !.kind = "deleted", !.returned = TRUE,
                        !.result = Result(0, NoErr),
                        !.later = (now > clock),
                        !.nowDecide = now]
        /\ clock' = now
        /\ UNCHANGED recommendation

Fetched == recommendation.exists /\ recommendation.DeletionTimestamp = None

\* Variant of the not-needed path in which a resync starts the next period by
\* clearing LastSuccessfulTime.
ReconcileNotNeeded_ResyncRestarts ==
    \E now \in Instants :
        LET d == NeedRecommend(recommendation, now)
        IN  /\ now >= clock
            /\ Fetched
            /\ ~d.needRecommend
            /\ last' = [NoObservation EXCEPT
                            !.kind = IF d.panicked THEN "panic"
                                     ELSE IF d.needResync THEN "resync" ELSE "skip",
                            !.returned = ~d.panicked,
                            !.result = Result(IF d.needResync THEN RsyncPeriod ELSE 0, NoErr),
                            !.decision = d, !.decided = TRUE,
                            \* the invocation before this one was parked too
                            !.repeated = (d.needResync /\ last.kind = "resync"),
                            !.later = (now > clock),
                            !.nowDecide = now]
            /\ clock' = now
            /\ recommendation' = IF d.needResync
                    THEN [recommendation EXCEPT !.Status.LastSuccessfulTime = None]
                    ELSE recommendation

\* !needRecommend: resync after RsyncPeriod, or nothing happens; a panic in
\* NeedRecommend leaves the handler without a result.
ReconcileNotNeeded ==
    \E now \in Instants :
        LET d == NeedRecommend(recommendation, now)
        IN  /\ now >= clock
            /\ Fetched
            /\ ~d.needRecommend
            /\ last' = [NoObservation EXCEPT
                            !.kind = IF d.panicked THEN "panic"
                                     ELSE IF d.needResync THEN "resync" ELSE "skip",
                            !.returned = ~d.panicked,
                            !.result = Result(IF d.needResync THEN RsyncPeriod ELSE 0, NoErr),
                            !.decision = d, !.decided = TRUE,
                            \* the invocation before this one was parked too
                            !.repeated = (d.needResync /\ last.kind = "resync"),
                            !.later = (now > clock),
                            !.nowDecide = now]
            /\ clock' = now
            /\ UNCHANGED recommendation

\* Variant of the tail of Reconcile in which a failed write still leaves the
\* new conditions on the stored object.
Finish_ConditionsLeak(kind, newStatus, nNew, nOffer, proposed, result, now, nowU, updateErr) ==
    LET u == UpdateStatus(recommendation, newStatus, nowU, updateErr)
    IN  /\ last' = [NoObservation EXCEPT
                        !.kind = kind, !.returned = TRUE, !.result = result,
                        !.decision = Decision(TRUE, FALSE), !.decided = TRUE,
                        !.changed = u.changed, !.persisted = u.persisted,
                        !.nNew = nNew, !.nOffer = nOffer,
                        !.nUpdate = IF u.updateCalled THEN 1 ELSE 0,
                        \* what c.Update returned, when it was called
                        !.updateErr = IF u.updateCalled THEN updateErr ELSE NoErr,
                        !.proposed = proposed,
                        \* the invocation before this one obtained the same
                        \* proposal and left its status in the store
                        !.repeated = /\ kind = "offered"
                                     /\ last.kind = "offered"
                                     /\ last.proposed = proposed
                                     /\ (last.persisted \/ ~last.changed),
                        \* this invocation started after the previous one ended
                        !.later = (now > clock),
                        !.nowDecide = now]
        /\ recommendation' = IF u.persisted
                                THEN [recommendation EXCEPT !.Status = u.status]
                                ELSE [recommendation EXCEPT
                                        !.Status.Conditions = newStatus.Conditions]
        /\ clock' = nowU

\* The part of Reconcile after the recommender's outcome is known:
\* UpdateStatus at nowU, then the return.
Finish(kind, newStatus, nNew, nOffer, proposed, result, now, nowU, updateErr) ==
    LET u == UpdateStatus(recommendation, newStatus, nowU, updateErr)
    IN  /\ last' = [NoObservation EXCEPT
                        !.kind = kind, !.returned = TRUE, !.result = result,
                        !.decision = Decision(TRUE, FALSE), !.decided = TRUE,
                        !.changed = u.changed, !.persisted = u.persisted,
                        !.nNew = nNew, !.nOffer = nOffer,
                        !.nUpdate = IF u.updateCalled THEN 1 ELSE 0,
                        \* what c.Update returned, when it was called
                        !.updateErr = IF u.updateCalled THEN updateErr ELSE NoErr,
                        !.proposed = proposed,
                        \* the invocation before this one obtained the same
                        \* proposal and left its status in the store
                        !.repeated = /\ kind = "offered"
                                     /\ last.kind = "offered"
                                     /\ last.proposed = proposed
                                     /\ (last.persisted \/ ~last.changed),
                        \* this invocation started after the previous one ended
                        !.later = (now > clock),
                        !.nowDecide = now]
        /\ recommendation' = IF u.persisted
                                THEN [recommendation EXCEPT !.Status = u.status]
                                ELSE recommendation
        /\ clock' = nowU

\* The decision is Run at now. The clock is read again once the recommender
\* is done, by setCondition (nowC) and right after it by UpdateStatus (nowU).
Running(now, nowC, nowU) ==
    /\ now >= clock
    /\ InWindow(nowC) /\ InWindow(nowU)
    /\ Fetched
    /\ NeedRecommend(recommendation, now).needRecommend

\* Variant of the construction-failure path without the return: Offer is
\* still called on the recommender.
ReconcileCreateFailed_FallsThrough ==
    \E now \in Instants, dC \in 0..1,
       err \in NewRecommenderErrs \ {NoErr}, updateErr \in UpdateErrs :
        LET nowC == now + dC
            nowU == nowC
            newStatus == setCondition(recommendation.Status, "Ready", "False",
                                      "FailedCreateRecommender", CreateFailMessage(err), nowC)
        IN  /\ Running(now, nowC, nowU)
            /\ Finish("createfailed", newStatus, 1, 1, None, Result(0, err),
                      now, nowU, updateErr)

\* recommend.NewRecommender returns an error
ReconcileCreateFailed ==
    \E now \in Instants, dC \in 0..1,
       err \in NewRecommenderErrs \ {NoErr}, updateErr \in UpdateErrs :
        LET nowC == now + dC
            nowU == nowC
            newStatus == setCondition(recommendation.Status, "Ready", "False",
                                      "FailedCreateRecommender", CreateFailMessage(err), nowC)
        IN  /\ Running(now, nowC, nowU)
            /\ Finish("createfailed", newStatus, 1, 0, None, Result(0, err),
                      now, nowU, updateErr)

\* Variant of the Offer-failure path returning like the construction-failure path.
ReconcileOfferFailed_NoRequeue ==
    \E now \in Instants, dC \in 0..1,
       err \in OfferErrs \ {NoErr}, updateErr \in UpdateErrs :
        LET nowC == now + dC
            nowU == nowC
            newStatus == setCondition(recommendation.Status, "Ready", "False",
                                      "FailedOfferRecommend", OfferFailMessage(err), nowC)
        IN  /\ Running(now, nowC, nowU)
            /\ Finish("offerfailed", newStatus, 1, 1, None,
                      Result(0, err), now, nowU, updateErr)

\* recommender.Offer returns an error
ReconcileOfferFailed ==
    \E now \in Instants, dC \in 0..1,
       err \in OfferErrs \ {NoErr}, updateErr \in UpdateErrs :
        LET nowC == now + dC
            nowU == nowC
            newStatus == setCondition(recommendation.Status, "Ready", "False",
                                      "FailedOfferRecommend", OfferFailMessage(err), nowC)
        IN  /\ Running(now, nowC, nowU)
            /\ Finish("offerfailed", newStatus, 1, 1, None,
                      Result(ErrorFallbackPeriod, err), now, nowU, updateErr)

\* Variant of the success path that copies only ResourceRequest.
ReconcileOffered_DropsEffectiveHPA ==
    \E now \in Instants, dC \in 0..1,
       proposed \in Proposals, updateErr \in UpdateErrs :
        LET nowC == now + dC
            nowU == nowC
            copied == IF proposed # None
                        THEN [recommendation.Status EXCEPT
                                !.ResourceRequest = proposed[1].ResourceRequest]
                        ELSE recommendation.Status
            newStatus == setCondition(copied, "Ready", "True",
                                      "RecommendationReady", ReadyMessage, nowC)
        IN  /\ Running(now, nowC, nowU)
            /\ Finish("offered", newStatus, 1, 1, proposed, Result(0, NoErr),
                      now, nowU, updateErr)

\* recommender.Offer returns proposed (possibly nil) and no error
ReconcileOffered ==
    \E now \in Instants, dC \in 0..1,
       proposed \in Proposals, updateErr \in UpdateErrs :
        LET nowC == now + dC
            nowU == nowC
            copied == IF proposed # None
                        THEN [recommendation.Status EXCEPT
                                !.ResourceRequest = proposed[1].ResourceRequest,
                                !.EffectiveHPA = proposed[1].EffectiveHPA]
                        ELSE recommendation.Status
            newStatus == setCondition(copied, "Ready", "True",
                                      "RecommendationReady", ReadyMessage, nowC)
        IN  /\ Running(now, nowC, nowU)
            /\ Finish("offered", newStatus, 1, 1, proposed, Result(0, NoErr),
                      now, nowU, updateErr)

Reconcile ==
    \/ ReconcileGetFailed
    \/ ReconcileDeleted
    \/ ReconcileNotNeeded
    \/ ReconcileCreateFailed
    \/ ReconcileOfferFailed
    \/ ReconcileOffered

\* ------------------------------------------------------ environment
\* The owner deletes the entity: the deletion marker is set (the handler
\* only tests it against nil) ...
MarkDeleted ==
    /\ recommendation.exists
    /\ recommendation.DeletionTimestamp = None
    /\ recommendation' = [recommendation EXCEPT !.DeletionTimestamp = Some("set")]
    /\ UNCHANGED <<clock, last>>

\* ... and later the object leaves the store.
Removed ==
    /\ recommendation.exists
    /\ recommendation.DeletionTimestamp # None
    /\ recommendation' = [recommendation EXCEPT !.exists = FALSE]
    /\ UNCHANGED <<clock, last>>

Init ==
    /\ \E strategy \in Strategies, timeout \in TimeoutChoices,
          created \in CreationTimestamps, conditions \in InitConditions :
            recommendation =
                [exists |-> TRUE,
                 DeletionTimestamp |-> None,
                 CreationTimestamp |-> created,
                 Spec |-> [CompletionStrategy |-> strategy, TimeoutSeconds |-> timeout],
                 Status |-> [EmptyStatus EXCEPT !.Conditions = conditions]]
    /\ clock = recommendation.CreationTimestamp
    /\ last = NoObservation

Next ==
    \/ Reconcile
    \/ MarkDeleted
    \/ Removed

Spec == Init /\ [][Next]_vars

\* ================================================================ helpers
Strategy == recommendation.Spec.CompletionStrategy
IsOnce == Strategy.CompletionStrategyType = "Once"
IsPeriodical == Strategy.CompletionStrategyType = "Periodical"
\* timeout in force: Spec.TimeoutSeconds, or 600 when absent
TimeoutOf == IF recommendation.Spec.TimeoutSeconds = None
                THEN 600 ELSE recommendation.Spec.TimeoutSeconds[1]
Run == [needRecommend |-> TRUE, needResync |-> FALSE, panicked |-> FALSE]
Skip == [needRecommend |-> FALSE, needResync |-> FALSE, panicked |-> FALSE]
ResyncAfter == [needRecommend |-> FALSE, needResync |-> TRUE, panicked |-> FALSE]
Invoked(obs) == obs.kind \in {"createfailed", "offerfailed", "offered"}
ReadyOf(conditions) ==
    {conditions[i] : i \in {j \in 1..Len(conditions) : conditions[j].Type = "Ready"}}
ReadyIs(status, conditionStatus, reason) ==
    /\ Cardinality(ReadyOf(status.Conditions)) = 1
    /\ \A c \in ReadyOf(status.Conditions) :
            c.Status = conditionStatus /\ c.Reason = reason
UniqueTypes(conditions) ==
    \A i, j \in 1..Len(conditions) :
        conditions[i].Type = conditions[j].Type => i = j
\* new is old with entry e upserted: overwritten in place, or appended
IsUpsert(old, new, e) ==
    LET at == {i \in 1..Len(old) : old[i].Type = e.Type}
    IN  IF at # {}
        THEN /\ Len(new) = Len(old)
             /\ \A i \in 1..Len(old) : new[i] = IF i \in at THEN e ELSE old[i]
        ELSE new = old \o <<e>>
\* A step of the handler: the only other steps set the deletion marker or
\* remove the object. last' is then the observation of that invocation,
\* recommendation the object it fetched and recommendation' the object it left.
Reconciled ==
    /\ recommendation'.exists = recommendation.exists
    /\ recommendation'.DeletionTimestamp = recommendation.DeletionTimestamp
LST == recommendation.Status.LastSuccessfulTime

\* ================================================================ claims

\* C1: for a Periodical entity NeedRecommend returns Run when
\* LastSuccessfulTime is unset; with LastSuccessfulTime = T, periodSeconds = P
\* and timeout S it returns Run for every now <= T+P+S and ResyncAfter for
\* every now > T+P+S. Reconcile returns RequeueAfter = 60 s on ResyncAfter
\* without touching the recommender or the status, and on Run it goes on to
\* the recommender and adds no delay of its own (a successful run returns
\* none).
C1_PeriodicalExpected(lst, now) ==
    IF lst = None THEN Run
    ELSE IF now <= lst[1] + Strategy.PeriodSeconds[1] + TimeoutOf THEN Run
    ELSE ResyncAfter
C1_Decides ==
    (IsPeriodical /\ Strategy.PeriodSeconds # None) =>
        \A now \in Instants :
            NeedRecommend(recommendation, now) = C1_PeriodicalExpected(LST, now)
C1_Reconciles ==
    (Reconciled /\ IsPeriodical /\ Strategy.PeriodSeconds # None /\ last'.decided) =>
        /\ last'.decision = C1_PeriodicalExpected(LST, last'.nowDecide)
        /\ last'.decision = ResyncAfter =>
                /\ last'.result = Result(60, NoErr)
                /\ last'.nNew = 0 /\ last'.nOffer = 0
                /\ recommendation' = recommendation
        /\ last'.decision = Run =>
                /\ Invoked(last')
                /\ last'.kind = "offered" => last'.result = Result(0, NoErr)
C2_Decides ==
    (IsOnce /\ LST # None) =>
        \A now \in Instants : NeedRecommend(recommendation, now) = Skip
C2_Reconciles ==
    (Reconciled /\ IsOnce /\ LST # None /\ last'.decided) =>
        /\ last'.decision = Skip
        /\ last'.kind = "skip"
C2_OnceFinishedSkips == []C2_Decides /\ [][C2_Reconciles]_vars
C2_Witness ==
    /\ IsOnce
    /\ last.kind = "skip"
    /\ LST # None
    /\ last.nowDecide <= recommendation.CreationTimestamp + TimeoutOf

\* C3: a Once entity with unset LastSuccessfulTime is skipped exactly when
\* now > creationTimestamp + timeout and run otherwise; after a Reconcile
\* of a Once entity was a Skip, no later Reconcile invokes the recommender.
C3_Decides ==
    (IsOnce /\ LST = None) =>
        \A now \in Instants :
            NeedRecommend(recommendation, now) =
                IF now > recommendation.CreationTimestamp + TimeoutOf THEN Skip ELSE Run
C3_Reconciles ==
    /\ (Reconciled /\ IsOnce /\ LST = None /\ last'.decided) =>
            last'.decision =
                IF last'.nowDecide > recommendation.CreationTimestamp + TimeoutOf
                    THEN Skip ELSE Run
    /\ (IsOnce /\ last.kind = "skip") =>
            /\ last'.kind \in {"skip", "deleted", "getfailed"}
            /\ last'.nNew = 0 /\ last'.nOffer = 0
C3_OnceTimeout == []C3_Decides /\ [][C3_Reconciles]_vars
C3_Witness ==
    /\ IsOnce
    /\ last.kind = "skip"
    /\ LST = None
    /\ last.nowDecide > recommendation.CreationTimestamp + TimeoutOf

\* C4 (as claimed): when two consecutive Reconcile invocations obtain the
\* same successful proposal, the second at a later clock value, the second
\* computes changed = false and issues no write.
C4_SecondOfferIsNoOp ==
    (last.kind = "offered" /\ last.repeated /\ last.later) =>
        /\ ~last.changed
        /\ last.nUpdate = 0

\* C5 (as claimed): LastSuccessfulTime is assigned by a status update exactly
\* when that update changed the status and set Ready=True with reason
\* RecommendationReady; a Reconcile of an entity that is already Ready and
\* obtains the proposal it already holds leaves LastSuccessfulTime alone.
C5_AlreadyReady(status, proposed) ==
    /\ ReadyIs(status, "True", "RecommendationReady")
    /\ status.LastSuccessfulTime # None
    /\ \/ proposed = None
       \/ /\ proposed # None
          /\ proposed[1].ResourceRequest = status.ResourceRequest
          /\ proposed[1].EffectiveHPA = status.EffectiveHPA
C5_Reconciles ==
    Reconciled =>
        /\ recommendation'.Status.LastSuccessfulTime # LST =>
                /\ last'.kind = "offered" /\ last'.changed
                /\ recommendation'.Status.LastSuccessfulTime = Some(clock')
        /\ (last'.kind = "offered" /\ last'.persisted) =>
                recommendation'.Status.LastSuccessfulTime = Some(clock')
        /\ (last'.kind = "offered" /\ C5_AlreadyReady(recommendation.Status, last'.proposed)) =>
                recommendation'.Status.LastSuccessfulTime = LST
C5_SuccessTimeAnchored == [][C5_Reconciles]_vars

\* C6: conditions stay unique by Type; an upsert overwrites Status, Reason,
\* Message and LastTransitionTime of the existing entry of that Type in
\* place, leaving its position and every other entry alone, and appends one
\* entry at the end when there was none; so does every status Reconcile
\* stores.
C6_Upserts ==
    /\ UniqueTypes(recommendation.Status.Conditions)
    /\ \A type \in {"Ready", "Other", "Extra"}, now \in Instants :
         LET e == Condition(type, "True", "SomeReason", <<"some message">>, now)
             new == setCondition(recommendation.Status, type, e.Status,
                                 e.Reason, e.Message, now)
         IN  /\ IsUpsert(recommendation.Status.Conditions, new.Conditions, e)
             /\ UniqueTypes(new.Conditions)
             /\ [new EXCEPT !.Conditions = recommendation.Status.Conditions]
                    = recommendation.Status
C6_Stored ==
    CASE last'.kind = "offered" ->
            Condition("Ready", "True", "RecommendationReady", ReadyMessage, clock')
      [] last'.kind = "offerfailed" ->
            Condition("Ready", "False", "FailedOfferRecommend",
                      OfferFailMessage("ErrOffer"), clock')
      [] OTHER ->
            Condition("Ready", "False", "FailedCreateRecommender",
                      CreateFailMessage("ErrCreate"), clock')
C6_Reconciles ==
    (Reconciled /\ last'.persisted) =>
        IsUpsert(recommendation.Status.Conditions,
                 recommendation'.Status.Conditions, C6_Stored)
C6_ConditionUpsert == []C6_Upserts /\ [][C6_Reconciles]_vars
C6_Witness ==
    /\ last.kind = "offered"
    /\ last.persisted
    /\ Len(recommendation.Status.Conditions) = 2
    /\ recommendation.Status.Conditions[1].Type = "Ready"
    /\ recommendation.Status.Conditions[1].LastTransitionTime > 0
    /\ recommendation.Status.Conditions[2] = OtherCondition

\* C7: when the recommender succeeds for a Once entity inside the timeout
\* window and the status write succeeds, the stored status has Ready=True
\* and LastSuccessfulTime equal to the instant of that write; from then on
\* every Reconcile that fetches the entity is a Skip, at any later time: no
\* recommender call, no status mutation, no requeue.
C7_Succeeded ==
    (IsOnce /\ last.kind = "offered" /\ last.persisted) =>
        /\ last.nowDecide <= recommendation.CreationTimestamp + TimeoutOf
        /\ ReadyIs(recommendation.Status, "True", "RecommendationReady")
        /\ LST = Some(clock)
        /\ recommendation.Status.LastUpdateTime = clock
        /\ last.nowDecide <= clock
C7_ThenSkipped ==
    (IsOnce /\ LST # None) =>
        /\ recommendation'.Status = recommendation.Status
        /\ Reconciled =>
              /\ last'.kind \in {"skip", "deleted", "getfailed"}
              /\ last'.nNew = 0 /\ last'.nOffer = 0 /\ last'.nUpdate = 0
              /\ last'.result.RequeueAfter = 0
              /\ last'.kind = "skip" => last'.result = Result(0, NoErr)
C7_OnceScenario == []C7_Succeeded /\ [][C7_ThenSkipped]_vars
C7_Witness ==
    /\ IsOnce
    /\ last.kind = "skip"
    /\ LST # None
    /\ LST[1] <= recommendation.CreationTimestamp + TimeoutOf
    /\ last.nowDecide > recommendation.CreationTimestamp + TimeoutOf

\* C8: when Offer fails, the status gets Ready=False with reason
\* FailedOfferRecommend (it is what the store holds once the write went
\* through), LastSuccessfulTime keeps its value, and Reconcile returns
\* RequeueAfter = 5 s; a Periodical entity with last success T reconciled at
\* now > T + periodSeconds + timeout gets RequeueAfter = 60 s and no
\* recommender call.
C8_Reconciles ==
    /\ (Reconciled /\ last'.kind = "offerfailed") =>
            /\ last'.result.RequeueAfter = 5
            /\ last'.result.err # NoErr
            /\ last'.nNew = 1 /\ last'.nOffer = 1
            /\ recommendation'.Status.LastSuccessfulTime = LST
            /\ (last'.persisted \/ ~last'.changed) =>
                    ReadyIs(recommendation'.Status, "False", "FailedOfferRecommend")
            /\ last'.nUpdate = IF last'.changed THEN 1 ELSE 0
    /\ ( /\ Reconciled /\ last'.decided
         /\ IsPeriodical /\ Strategy.PeriodSeconds # None /\ LST # None
         /\ last'.nowDecide > LST[1] + Strategy.PeriodSeconds[1] + TimeoutOf ) =>
            /\ last'.result = Result(60, NoErr)
            /\ last'.nNew = 0 /\ last'.nOffer = 0 /\ last'.nUpdate = 0
C8_OfferFailure == [][C8_Reconciles]_vars
C8_Witness ==
    /\ IsPeriodical
    /\ last.kind = "offerfailed"
    /\ last.persisted
    /\ LST # None
    /\ ReadyIs(recommendation.Status, "False", "FailedOfferRecommend")

\* C9 (as claimed): when construction of the recommender fails, the status
\* gets Ready=False with reason FailedCreateRecommender, Offer is not
\* invoked, and Reconcile returns the 5-second fallback requeue.
C9_CreateFailureRequeues ==
    last.kind = "createfailed" =>
        /\ last.persisted =>
                ReadyIs(recommendation.Status, "False", "FailedCreateRecommender")
        /\ last.nOffer = 0
        /\ last.result.RequeueAfter = 5

\* C10: on a construction or invocation failure the status Reconcile writes
\* differs from the fetched one only in the Ready condition and
\* LastUpdateTime: ResourceRequest, EffectiveHPA, LastSuccessfulTime and
\* every condition of another Type are as fetched.
C10_Reconciles ==
    (Reconciled /\ last'.kind \in {"createfailed", "offerfailed"}) =>
        LET old == recommendation.Status
            new == recommendation'.Status
        IN  /\ new.ResourceRequest = old.ResourceRequest
            /\ new.EffectiveHPA = old.EffectiveHPA
            /\ new.LastSuccessfulTime = old.LastSuccessfulTime
            /\ \A i \in 1..Len(old.Conditions) :
                    old.Conditions[i].Type # "Ready" =>
                        /\ i <= Len(new.Conditions)
                        /\ new.Conditions[i] = old.Conditions[i]
            /\ \A i \in 1..Len(new.Conditions) :
                    new.Conditions[i].Type # "Ready" =>
                        /\ i <= Len(old.Conditions)
                        /\ new.Conditions[i] = old.Conditions[i]
            /\ ~last'.persisted => new = old
            /\ [recommendation' EXCEPT !.Status = old] = recommendation
C10_FailureFrame == [][C10_Reconciles]_vars
C10_Witness ==
    /\ last.kind = "createfailed"
    /\ last.persisted
    /\ recommendation.Status.ResourceRequest # "nil"
    /\ LST # None
    /\ recommendation.Status.LastUpdateTime > LST[1]
    /\ \E i \in 1..Len(recommendation.Status.Conditions) :
            recommendation.Status.Conditions[i].Type = "Other"

\* C11: when the recommender succeeds in a Reconcile whose decision was Run,
\* Reconcile returns no requeue delay and no error, and the resulting status
\* (stored once the write went through) has Ready=True with reason
\* RecommendationReady and carries the proposal's ResourceRequest and
\* EffectiveHPA; a nil proposal leaves both payloads as fetched.
C11_Reconciles ==
    (Reconciled /\ last'.kind = "offered") =>
        /\ last'.decision = Run
        /\ last'.result = Result(0, NoErr)
        /\ last'.nNew = 1 /\ last'.nOffer = 1
        /\ (last'.persisted \/ ~last'.changed) =>
             LET new == recommendation'.Status
             IN  /\ ReadyIs(new, "True", "RecommendationReady")
                 /\ IF last'.proposed # None
                    THEN /\ new.ResourceRequest = last'.proposed[1].ResourceRequest
                         /\ new.EffectiveHPA = last'.proposed[1].EffectiveHPA
                    ELSE /\ new.ResourceRequest = recommendation.Status.ResourceRequest
                         /\ new.EffectiveHPA = recommendation.Status.EffectiveHPA
C11_SuccessOutcome == [][C11_Reconciles]_vars
C11_Witness ==
    /\ last.kind = "offered"
    /\ last.persisted
    /\ last.proposed # None
    /\ last.repeated = FALSE
    /\ recommendation.Status.ResourceRequest = "r2"
    /\ recommendation.Status.EffectiveHPA = "nil"
    /\ LST # None /\ LST[1] > 0

\* C12: a Reconcile that ends while fetching or deciding leaves the entity
\* untouched. Not found: the error goes to the caller. Deletion marker: no
\* error, no requeue. Skip: no requeue. ResyncAfter: requeue after 60 s. In
\* all four the recommender is neither constructed nor invoked and nothing is
\* written.
C12_Reconciles ==
    Reconciled =>
        /\ ~recommendation.exists =>
                /\ last'.kind = "getfailed"
                /\ last'.result = Result(0, "NotFound")
        /\ (recommendation.exists /\ recommendation.DeletionTimestamp # None
                /\ last'.kind # "getfailed") =>
                /\ last'.kind = "deleted"
                /\ last'.result = Result(0, NoErr)
        /\ last'.kind = "skip" => last'.result = Result(0, NoErr)
        /\ last'.kind = "resync" => last'.result = Result(60, NoErr)
        /\ last'.kind \in {"getfailed", "deleted", "skip", "resync"} =>
                /\ last'.nNew = 0 /\ last'.nOffer = 0 /\ last'.nUpdate = 0
                /\ ~last'.changed /\ ~last'.persisted
                /\ recommendation' = recommendation
        /\ last'.kind = "getfailed" => last'.result.err # NoErr
C12_EarlyExitFrame == [][C12_Reconciles]_vars
C12_Witness ==
    /\ last.kind = "deleted"
    /\ recommendation.exists
    /\ LST # None
    /\ clock > recommendation.Status.LastUpdateTime

\* C13 (as claimed): when c.Update fails during a Reconcile, the failure
\* reaches the caller in Reconcile's result, as an error or a requeue, on
\* the success path as well as on the recommender-failure paths.
C13_UpdateFailureSurfaced ==
    (last.nUpdate = 1 /\ last.updateErr # NoErr) =>
        \/ last.result.err # NoErr
        \/ last.result.RequeueAfter > 0

\* C14 (as claimed): every Reconcile invocation returns a result to its
\* caller, whatever the fetched entity (either strategy, LastSuccessfulTime
\* set or unset, TimeoutSeconds and periodSeconds present or absent) and
\* whatever the outcomes of the fetch, the recommender and the write.
C14_AlwaysReturns ==
    last.kind # "none" => last.returned

\* C15: status writes are all-or-nothing. After a Reconcile the stored
\* status is exactly the fetched one, or it is the complete new status:
\* upserted Ready condition, payloads, LastUpdateTime and LastSuccessfulTime
\* together. A Reconcile whose fetch is cancelled or whose Update fails
\* leaves the stored object as it was.
C15_Complete ==
    LET old == recommendation.Status
        new == recommendation'.Status
    IN  /\ IsUpsert(old.Conditions, new.Conditions, C6_Stored)
        /\ new.LastUpdateTime = clock'
        /\ new.LastSuccessfulTime =
                IF last'.kind = "offered" THEN Some(clock') ELSE old.LastSuccessfulTime
        /\ new.ResourceRequest =
                IF last'.kind = "offered" /\ last'.proposed # None
                    THEN last'.proposed[1].ResourceRequest ELSE old.ResourceRequest
        /\ new.EffectiveHPA =
                IF last'.kind = "offered" /\ last'.proposed # None
                    THEN last'.proposed[1].EffectiveHPA ELSE old.EffectiveHPA
C15_Reconciles ==
    Reconciled =>
        /\ \/ recommendation'.Status = recommendation.Status
           \/ last'.persisted /\ last'.updateErr = NoErr /\ C15_Complete
        /\ last'.persisted => C15_Complete
        /\ (last'.updateErr # NoErr \/ last'.result.err = CanceledErr) =>
                recommendation' = recommendation
        /\ [recommendation' EXCEPT !.Status = recommendation.Status] = recommendation
C15_AllOrNothing == [][C15_Reconciles]_vars
C15_Witness ==
    /\ last.kind = "offered"
    /\ last.changed
    /\ last.updateErr # NoErr
    /\ last.proposed # None
    /\ recommendation.Status.ResourceRequest = "nil"
    /\ LST = None

\* C16: write suppression. UpdateStatus calls c.Update exactly when the new
\* status is not structurally equal to the fetched one (conditions
\* included); when they are equal nothing is written and LastUpdateTime and
\* LastSuccessfulTime stay; when they differ LastUpdateTime is the current
\* time in the status that is written.
C16_Times == {clock, DefaultTimeoutSeconds + MaxDrift}
C16_Candidates ==
    {recommendation.Status}
    \cup {setCondition(recommendation.Status, "Ready", "True",
                       "RecommendationReady", ReadyMessage, t) : t \in C16_Times}
    \cup {setCondition(recommendation.Status, "Ready", "False",
                       "FailedOfferRecommend", OfferFailMessage("ErrOffer"), t) :
            t \in C16_Times}
    \cup {[recommendation.Status EXCEPT !.ResourceRequest = "r1"]}
C16_Gate ==
    \A newStatus \in C16_Candidates, now \in C16_Times, updateErr \in UpdateErrs :
        LET u == UpdateStatus(recommendation, newStatus, now, updateErr)
        IN  IF newStatus = recommendation.Status
            THEN /\ ~u.updateCalled /\ ~u.changed /\ ~u.persisted
                 /\ u.status = recommendation.Status
            ELSE /\ u.updateCalled /\ u.changed
                 /\ u.persisted = (updateErr = NoErr)
                 /\ u.status.LastUpdateTime = now
                 /\ u.status.Conditions = newStatus.Conditions
\* the fetched status already is what this invocation computes
C16_NothingNew ==
    /\ IsUpsert(recommendation.Status.Conditions,
                recommendation.Status.Conditions, C6_Stored)
    /\ \/ last'.kind # "offered"
       \/ last'.proposed = None
       \/ /\ last'.proposed # None
          /\ last'.proposed[1].ResourceRequest = recommendation.Status.ResourceRequest
          /\ last'.proposed[1].EffectiveHPA = recommendation.Status.EffectiveHPA
C16_Reconciles ==
    (Reconciled /\ Invoked(last')) =>
        /\ last'.changed = ~C16_NothingNew
        /\ last'.nUpdate = IF last'.changed THEN 1 ELSE 0
        /\ ~last'.changed => recommendation' = recommendation
        /\ last'.persisted => recommendation'.Status.LastUpdateTime = clock'
C16_WriteSuppression == []C16_Gate /\ [][C16_Reconciles]_vars
C16_Witness ==
    /\ Invoked(last)
    /\ ~last.changed
    /\ last.nUpdate = 0
    /\ recommendation.Status.LastUpdateTime = clock

\* C17: the parked state of a Periodical entity is absorbing. Once a
\* Reconcile found now > LastSuccessfulTime + periodSeconds + timeout, every
\* later Reconcile of the entity (clock not going back, no other writer of
\* Status) returns RequeueAfter = 60 s, calls no recommender and changes no
\* status field.
C17_Parked ==
    (IsPeriodical /\ Strategy.PeriodSeconds # None /\ last.kind = "resync") =>
        /\ LST # None
        /\ \A now \in Instants :
                now >= clock => NeedRecommend(recommendation, now) = ResyncAfter
C17_Reconciles ==
    (IsPeriodical /\ Strategy.PeriodSeconds # None /\ last.kind = "resync") =>
        /\ recommendation'.Status = recommendation.Status
        /\ (Reconciled /\ last'.decided) =>
                /\ last'.kind = "resync"
                /\ last'.result = Result(60, NoErr)
                /\ last'.nNew = 0 /\ last'.nOffer = 0 /\ last'.nUpdate = 0
        /\ last'.kind \in {"resync", "deleted", "getfailed"}
C17_ParkedAbsorbing == []C17_Parked /\ [][C17_Reconciles]_vars
C17_Witness ==
    /\ IsPeriodical
    /\ last.kind = "resync"
    /\ last.repeated
    /\ last.later

\* C18: with a clock that does not go back, the stored LastSuccessfulTime is
\* monotone over any sequence of Reconcile invocations: once set it is never
\* cleared and never moves to an earlier instant, whatever the recommender
\* and the writes do.
C18_Steps ==
    LST # None =>
        /\ recommendation'.Status.LastSuccessfulTime # None
        /\ recommendation'.Status.LastSuccessfulTime[1] >= LST[1]
C18_SuccessTimeMonotone == [][C18_Steps]_vars
C18_Witness ==
    /\ last.kind = "offered"
    /\ last.repeated /\ last.later
    /\ last.persisted
    /\ LST = Some(clock)

\* C19: in every stored status, if the Ready condition is True with reason
\* RecommendationReady then LastSuccessfulTime is set and equals
\* LastUpdateTime; and a set LastSuccessfulTime is never later than
\* LastUpdateTime.
C19_SuccessTimeConsistent ==
    /\ (\E c \in ReadyOf(recommendation.Status.Conditions) :
            c.Status = "True" /\ c.Reason = "RecommendationReady") =>
                /\ LST # None
                /\ LST[1] = recommendation.Status.LastUpdateTime
    /\ LST # None => LST[1] <= recommendation.Status.LastUpdateTime
C19_Witness ==
    /\ ReadyIs(recommendation.Status, "False", "FailedCreateRecommender")
    /\ LST # None
    /\ LST[1] < recommendation.Status.LastUpdateTime
    /\ LST[1] > 0

\* C20: one Reconcile invocation constructs the recommender at most once,
\* calls Offer at most once and calls c.Update at most once; Offer is not
\* called after a construction failure, and c.Update is called only when the
\* decision of that invocation was Run.
C20_CallCounts ==
    /\ last.nNew \in 0..1 /\ last.nOffer \in 0..1 /\ last.nUpdate \in 0..1
    /\ last.nOffer <= last.nNew
    /\ last.kind = "createfailed" => last.nNew = 1 /\ last.nOffer = 0
    /\ last.nUpdate = 1 => last.decided /\ last.decision = Run
    /\ last.nNew = 1 => last.decided /\ last.decision = Run
    /\ (last.changed \/ last.persisted) => last.nUpdate = 1
C20_Witness ==
    /\ last.kind = "createfailed"
    /\ last.nNew = 1 /\ last.nOffer = 0 /\ last.nUpdate = 1
    /\ last.updateErr # NoErr

====
